---- MODULE Spec2Model ----
(***************************************************************************)
(* A model of lots.py: the Lot record, its comparators, and the Lots       *)
(* collection with its constructor, add, sort, equality and CSV reading    *)
(* and writing.                                                            *)
(*                                                                         *)
(* Python objects live in heaps: `heap` holds the Lot objects, `lists`     *)
(* the Python list objects, `colls` the Lots objects (each a reference to  *)
(* a list object).  `file` is the CSV text as csv.reader sees it, a        *)
(* sequence of rows of cells.  `ret` records the last call and what it     *)
(* returned or raised.                                                     *)
(*                                                                         *)
(* A Python str is a sequence of one-character strings; None is a          *)
(* distinguished value of the same shape as the values it stands among.    *)
(***************************************************************************)
EXTENDS Integers, Sequences, FiniteSets, TLC

VARIABLES heap, lists, colls, file, ret

vars == <<heap, lists, colls, file, ret>>

----------------------------------------------------------------------------
(* Bounds of the model. *)

\* Lot objects in the heap of the collection specification.
NumLots == 3

\* Longest list a collection grows to by add.
MaxLen == 3

\* Most lots in the collection written to CSV, and most data rows read.
MaxRows == 2

----------------------------------------------------------------------------
(* Python str, int and bool. *)

\* The elements of a sequence.
Range(s) == {s[i] : i \in 1..Len(s)}

\* The printable ASCII characters in code order; Ascii[i] has code 31 + i
\* (the grave accent, code 96, is spelled out: no str of the model holds it).
Ascii ==
    << " ", "!", "\"", "#", "$", "%", "&", "'", "(", ")", "*", "+", ",", "-",
       ".", "/", "0", "1", "2", "3", "4", "5", "6", "7", "8", "9", ":", ";",
       "<", "=", ">", "?", "@", "A", "B", "C", "D", "E", "F", "G", "H", "I",
       "J", "K", "L", "M", "N", "O", "P", "Q", "R", "S", "T", "U", "V", "W",
       "X", "Y", "Z", "[", "\\", "]", "^", "_", "(grave)", "a", "b", "c", "d", "e",
       "f", "g", "h", "i", "j", "k", "l", "m", "n", "o", "p", "q", "r", "s",
       "t", "u", "v", "w", "x", "y", "z", "{", "|", "}", "~" >>

Ord(c) == 31 + (CHOOSE i \in 1..Len(Ascii) : Ascii[i] = c)

Chr(n) == Ascii[n - 31]

\* str.lower() on one character.
LowerChar(c) == IF Ord(c) >= 65 /\ Ord(c) <= 90 THEN Chr(Ord(c) + 32) ELSE c

\* str.lower()
Lower(s) == [i \in 1..Len(s) |-> LowerChar(s[i])]

\* s < t on two str: the first differing character decides, a proper prefix
\* is smaller.
StrLess(s, t) ==
    \E i \in 1..(Len(t)) :
        /\ \A j \in 1..(i - 1) : j <= Len(s) /\ s[j] = t[j]
        /\ \/ Len(s) = i - 1
           \/ Len(s) >= i /\ Ord(s[i]) < Ord(t[i])

IsDigit(c) == Ord(c) >= 48 /\ Ord(c) <= 57

DigitVal(c) == Ord(c) - 48

DigitChar(d) == Chr(48 + d)

RECURSIVE NatToStr(_)
NatToStr(n) ==
    IF n < 10 THEN <<DigitChar(n)>>
    ELSE NatToStr(n \div 10) \o <<DigitChar(n % 10)>>

\* str(value) of an int.
IntToStr(n) == IF n < 0 THEN <<"-">> \o NatToStr(0 - n) ELSE NatToStr(n)

AllDigits(s) == Len(s) >= 1 /\ \A i \in 1..Len(s) : IsDigit(s[i])

RECURSIVE DigitsToNat(_)
DigitsToNat(s) ==
    IF Len(s) = 0 THEN 0
    ELSE 10 * DigitsToNat(SubSeq(s, 1, Len(s) - 1)) + DigitVal(s[Len(s)])

\* int(value) of a str: an optional sign and at least one digit; anything
\* else raises ValueError (the white space int() allows around the number is
\* in no cell of the model).
IntOk(s) ==
    \/ AllDigits(s)
    \/ Len(s) >= 2 /\ s[1] \in {"+", "-"} /\ AllDigits(Tail(s))

IntOf(s) ==
    IF s[1] = "-" THEN 0 - DigitsToNat(Tail(s))
    ELSE IF s[1] = "+" THEN DigitsToNat(Tail(s))
    ELSE DigitsToNat(s)

----------------------------------------------------------------------------
(* datetime.date *)

\* Python None where a date may stand.
None == [year |-> 0, month |-> 0, day |-> 0]

Date(y, m, d) == [year |-> y, month |-> m, day |-> d]

IsLeap(y) == y % 4 = 0 /\ (y % 100 # 0 \/ y % 400 = 0)

DaysInMonth(y, m) ==
    IF m = 2 THEN (IF IsLeap(y) THEN 29 ELSE 28)
    ELSE IF m \in {4, 6, 9, 11} THEN 30 ELSE 31

RECURSIVE DaysBeforeMonth(_, _)
DaysBeforeMonth(y, m) ==
    IF m = 1 THEN 0 ELSE DaysBeforeMonth(y, m - 1) + DaysInMonth(y, m - 1)

DaysBeforeYear(y) ==
    (y - 1) * 365 + ((y - 1) \div 4) - ((y - 1) \div 100) + ((y - 1) \div 400)

\* date.toordinal()
ToOrdinal(dt) ==
    DaysBeforeYear(dt.year) + DaysBeforeMonth(dt.year, dt.month) + dt.day

\* (a - b).days
DaysBetween(a, b) == ToOrdinal(a) - ToOrdinal(b)

Pad(s, n) == [i \in 1..(n - Len(s)) |-> "0"] \o s

\* value.strftime('%m/%d/%Y')
Strftime(dt) ==
    Pad(NatToStr(dt.month), 2) \o <<"/">> \o Pad(NatToStr(dt.day), 2)
        \o <<"/">> \o Pad(NatToStr(dt.year), 4)

\* The positions of "/" in s.
Slashes(s) == {i \in 1..Len(s) : s[i] = "/"}

StrptimeParts(s) ==
    LET i == CHOOSE k \in Slashes(s) : \A l \in Slashes(s) : k <= l
        j == CHOOSE k \in Slashes(s) : \A l \in Slashes(s) : l <= k
    IN  [m |-> SubSeq(s, 1, i - 1),
         d |-> SubSeq(s, i + 1, j - 1),
         y |-> SubSeq(s, j + 1, Len(s))]

\* datetime.datetime.strptime(value, '%m/%d/%Y') succeeds: one or two digits
\* of month, one or two of day, four of year, and a date of the calendar.
StrptimeOk(s) ==
    /\ Cardinality(Slashes(s)) = 2
    /\ LET p == StrptimeParts(s)
       IN  /\ AllDigits(p.m) /\ Len(p.m) <= 2
           /\ AllDigits(p.d) /\ Len(p.d) <= 2
           /\ AllDigits(p.y) /\ Len(p.y) = 4
           /\ DigitsToNat(p.y) >= 1
           /\ DigitsToNat(p.m) \in 1..12
           /\ DigitsToNat(p.d) \in
                  1..DaysInMonth(DigitsToNat(p.y), DigitsToNat(p.m))

\* datetime.datetime.strptime(value, '%m/%d/%Y').date()
Strptime(s) ==
    LET p == StrptimeParts(s)
    IN  Date(DigitsToNat(p.y), DigitsToNat(p.m), DigitsToNat(p.d))

----------------------------------------------------------------------------
(* class Lot *)

FIELD_NAMES ==
    << "num_shares", "symbol", "description", "buy_date", "basis",
       "sell_date", "proceeds", "adjustment_code", "adjustment",
       "form_position", "buy_lot", "is_replacement" >>

\* Lot.__init__
Lot(num_shares, symbol, description, buy_date, basis, sell_date, proceeds, adjustment_code, adjustment, form_position, buy_lot, is_replacement) ==
    [ num_shares |-> num_shares, symbol |-> symbol,
      description |-> description, buy_date |-> buy_date, basis |-> basis,
      sell_date |-> sell_date, proceeds |-> proceeds,
      adjustment_code |-> adjustment_code, adjustment |-> adjustment,
      form_position |-> form_position, buy_lot |-> buy_lot,
      is_replacement |-> is_replacement, loss_processed |-> FALSE ]

is_loss_unsold(self) == self.proceeds < self.basis

\* Lot.is_loss: a date is always true in a condition, None never.
is_loss(self) == self.sell_date # None /\ self.proceeds < self.basis

\* Lot.__eq__
Lot__eq__(self, other) ==
    /\ self.num_shares = other.num_shares
    /\ self.symbol = other.symbol
    /\ self.description = other.description
    /\ self.buy_date = other.buy_date
    /\ self.basis = other.basis
    /\ self.sell_date = other.sell_date
    /\ self.proceeds = other.proceeds
    /\ self.adjustment_code = other.adjustment_code
    /\ self.adjustment = other.adjustment
    /\ self.form_position = other.form_position
    /\ self.buy_lot = other.buy_lot
    /\ self.is_replacement = other.is_replacement

cmp_by_buy_date_none_first(a, b) ==
    IF a.buy_date # b.buy_date THEN DaysBetween(a.buy_date, b.buy_date)
    ELSE IF a.sell_date # b.sell_date THEN
        IF a.sell_date = None THEN -1
        ELSE IF b.sell_date = None THEN 1
        ELSE DaysBetween(a.sell_date, b.sell_date)
    ELSE IF a.form_position # b.form_position THEN
        IF StrLess(a.form_position, b.form_position) THEN -1 ELSE 1
    ELSE 0

\* Lot.cmp_by_buy_date
cmp_by_buy_date(a, b) ==
    IF a.buy_date # b.buy_date THEN DaysBetween(a.buy_date, b.buy_date)
    ELSE IF a.sell_date # b.sell_date THEN
        IF a.sell_date = None THEN 1
        ELSE IF b.sell_date = None THEN -1
        ELSE DaysBetween(a.sell_date, b.sell_date)
    ELSE IF a.form_position # b.form_position THEN
        IF StrLess(a.form_position, b.form_position) THEN -1 ELSE 1
    ELSE 0

cmp_by_sell_date_no_buy_date(a, b) ==
    IF a.sell_date # b.sell_date THEN
        IF a.sell_date = None THEN 1
        ELSE IF b.sell_date = None THEN -1
        ELSE DaysBetween(a.sell_date, b.sell_date)
    ELSE IF a.form_position # b.form_position THEN
        IF StrLess(a.form_position, b.form_position) THEN -1 ELSE 1
    ELSE 0

\* Lot.cmp_by_sell_date
cmp_by_sell_date(a, b) ==
    IF a.sell_date # b.sell_date THEN
        IF a.sell_date = None THEN 1
        ELSE IF b.sell_date = None THEN -1
        ELSE DaysBetween(a.sell_date, b.sell_date)
    ELSE IF a.buy_date # b.buy_date THEN DaysBetween(a.buy_date, b.buy_date)
    ELSE IF a.form_position # b.form_position THEN
        IF StrLess(a.form_position, b.form_position) THEN -1 ELSE 1
    ELSE 0

\* Lot.cmp_by_num_shares
cmp_by_num_shares(a, b) == a.num_shares - b.num_shares

\* The comparator a sort is given, by name.
Comparators == {"cmp_by_buy_date", "cmp_by_sell_date", "cmp_by_num_shares"}

Compare(cmp, a, b) ==
    IF cmp = "cmp_by_buy_date" THEN cmp_by_buy_date(a, b)
    ELSE IF cmp = "cmp_by_sell_date" THEN cmp_by_sell_date(a, b)
    ELSE cmp_by_num_shares(a, b)

----------------------------------------------------------------------------
(* class Lots *)

ListIds == {"l1", "l2"}

CollIds == {"A", "B"}

\* The _lots of a Lots object that no constructor has run for yet.
NoList == "none"

\* Python None where a str may stand (the restval of csv.DictReader).
NoneStr == <<"None">>

\* `not value` for a str or None.
Falsy(value) == value = <<>> \/ value = NoneStr

RECURSIVE InitLoop_every_lot_counts(_, _, _, _)
InitLoop_every_lot_counts(h, lots, p, i) ==
    IF p > Len(lots) THEN h
    ELSE IF Falsy(h[lots[p]].buy_lot)
         THEN InitLoop_every_lot_counts(
                  [h EXCEPT ![lots[p]].buy_lot = <<"_">> \o IntToStr(i)],
                  lots, p + 1, i + 1)
         ELSE InitLoop_every_lot_counts(h, lots, p + 1, i + 1)

\* The loop of Lots.__init__ from position p of the list on, counter at i,
\* over the Lot objects h: the heap it leaves.
RECURSIVE InitLoop(_, _, _, _)
InitLoop(h, lots, p, i) ==
    IF p > Len(lots) THEN h
    ELSE IF Falsy(h[lots[p]].buy_lot)
         THEN InitLoop([h EXCEPT ![lots[p]].buy_lot = <<"_">> \o IntToStr(i)],
                       lots, p + 1, i + 1)
         ELSE InitLoop(h, lots, p + 1, i)

SortInsert_inverted(h, sorted, x, cmp, reverse) ==
    LET less(a, b) == IF reverse THEN Compare(cmp, h[b], h[a]) > 0
                      ELSE Compare(cmp, h[a], h[b]) > 0
        after == {i \in 1..Len(sorted) : less(x, sorted[i])}
        p == IF after = {} THEN Len(sorted) + 1
             ELSE CHOOSE i \in after : \A j \in after : i <= j
    IN  SubSeq(sorted, 1, p - 1) \o <<x>> \o SubSeq(sorted, p, Len(sorted))

\* list.sort(cmp=cmp, reverse=reverse) inserts each element before the first
\* one it is smaller than: a stable sort.
SortInsert(h, sorted, x, cmp, reverse) ==
    LET less(a, b) == IF reverse THEN Compare(cmp, h[b], h[a]) < 0
                      ELSE Compare(cmp, h[a], h[b]) < 0
        after == {i \in 1..Len(sorted) : less(x, sorted[i])}
        p == IF after = {} THEN Len(sorted) + 1
             ELSE CHOOSE i \in after : \A j \in after : i <= j
    IN  SubSeq(sorted, 1, p - 1) \o <<x>> \o SubSeq(sorted, p, Len(sorted))

RECURSIVE SortList(_, _, _, _, _)
SortList(h, lots, n, cmp, reverse) ==
    IF n = 0 THEN <<>>
    ELSE SortInsert(h, SortList(h, lots, n - 1, cmp, reverse), lots[n],
                    cmp, reverse)

\* The Lot objects of a list, in its order.
Deref(h, lots) == [i \in 1..Len(lots) |-> h[lots[i]]]

\* The lots of collection c.
LotsOf(c) == Deref(heap, lists[colls[c]])

\* Lots.__eq__: zip stops at the shorter list.
Lots__eq__(self, other) ==
    \A i \in 1..(IF Len(self) < Len(other) THEN Len(self) ELSE Len(other)) :
        Lot__eq__(self[i], other[i])

----------------------------------------------------------------------------
(* CSV *)

HEADERS ==
    [ num_shares |->
          <<"N", "u", "m", " ", "S", "h", "a", "r", "e", "s">>,
      symbol |->
          <<"S", "y", "m", "b", "o", "l">>,
      description |->
          <<"D", "e", "s", "c", "r", "i", "p", "t", "i", "o", "n">>,
      buy_date |->
          <<"B", "u", "y", " ", "D", "a", "t", "e">>,
      basis |->
          <<"B", "a", "s", "i", "s">>,
      sell_date |->
          <<"S", "e", "l", "l", " ", "D", "a", "t", "e">>,
      proceeds |->
          <<"P", "r", "o", "c", "e", "e", "d", "s">>,
      adjustment_code |->
          <<"A", "d", "j", "u", "s", "t", "m", "e", "n", "t", " ", "C", "o", "d", "e">>,
      adjustment |->
          <<"A", "d", "j", "u", "s", "t", "m", "e", "n", "t">>,
      form_position |->
          <<"F", "o", "r", "m", " ", "P", "o", "s", "i", "t", "i", "o", "n">>,
      buy_lot |->
          <<"B", "u", "y", " ", "L", "o", "t">>,
      is_replacement |->
          <<"I", "s", " ", "R", "e", "p", "l", "a", "c", "e", "m", "e", "n", "t">> ]

LEGACY_HEADERS ==
    [ num_shares |->
          <<"C", "n", "t">>,
      symbol |->
          <<"S", "y", "m">>,
      description |->
          <<"D", "e", "s", "c">>,
      buy_date |->
          <<"B", "u", "y", "D", "a", "t", "e">>,
      basis |->
          <<"B", "a", "s", "i", "s">>,
      sell_date |->
          <<"S", "e", "l", "l", "D", "a", "t", "e">>,
      proceeds |->
          <<"P", "r", "o", "c", "e", "e", "d", "s">>,
      adjustment_code |->
          <<"A", "d", "j", "C", "o", "d", "e">>,
      adjustment |->
          <<"A", "d", "j">>,
      form_position |->
          <<"F", "o", "r", "m", "P", "o", "s", "i", "t", "i", "o", "n">>,
      buy_lot |->
          <<"B", "u", "y", "L", "o", "t">>,
      is_replacement |->
          <<"I", "s", "R", "e", "p", "l", "a", "c", "e", "m", "e", "n", "t">> ]

\* The key csv.DictReader files the cells beyond the field names under
\* (its restkey, Python None).
RestKey == "None"

\* csv.DictReader: the dict of one row of cells.  Cells beyond the twelve
\* field names go under the restkey, fields beyond the cells are None.
DictOf(row) ==
    LET d == [f \in Range(FIELD_NAMES) |->
                 LET i == CHOOSE k \in 1..Len(FIELD_NAMES) : FIELD_NAMES[k] = f
                 IN  IF i <= Len(row) THEN row[i] ELSE NoneStr]
    IN  IF Len(row) > Len(FIELD_NAMES)
        THEN d @@ (RestKey :> SubSeq(row, Len(FIELD_NAMES) + 1, Len(row)))
        ELSE d

\* csv.DictReader returns no blank row: the rows it returns, in order.
RowsRead(data) == SelectSeq(data, LAMBDA row : row # <<>>)

BadHeaders_first_label(header_row) ==
    /\ header_row.num_shares # HEADERS.num_shares
    /\ header_row.num_shares # LEGACY_HEADERS.num_shares

\* The test of the header row in create_from_csv_data.
BadHeaders(header_row) ==
    header_row # HEADERS /\ header_row # LEGACY_HEADERS

convert_to_int(value) == IF Falsy(value) THEN 0 ELSE IntOf(value)

convert_to_date(value) == IF Falsy(value) THEN None ELSE Strptime(value)

convert_to_bool_case(value) ==
    IF Falsy(value) THEN FALSE ELSE value = <<"t", "r", "u", "e">>

convert_to_bool(value) ==
    IF Falsy(value) THEN FALSE ELSE Lower(value) = <<"t", "r", "u", "e">>

\* What converting one data row raises, "" if nothing: int() and strptime()
\* raise ValueError, in the order of the conversions, and Lot(**row) raises
\* TypeError for the restkey, which is no parameter of Lot.__init__.
RowError(row) ==
    IF \E f \in {"num_shares", "basis", "proceeds", "adjustment"} :
           ~Falsy(row[f]) /\ ~IntOk(row[f])
    THEN "ValueError"
    ELSE IF \E f \in {"buy_date", "sell_date"} :
                ~Falsy(row[f]) /\ ~StrptimeOk(row[f])
    THEN "ValueError"
    ELSE IF RestKey \in DOMAIN row THEN "TypeError"
    ELSE ""

\* The Lot of one data row that converts.
LotOfRow(row) ==
    Lot(convert_to_int(row.num_shares), row.symbol, row.description,
        convert_to_date(row.buy_date), convert_to_int(row.basis),
        convert_to_date(row.sell_date), convert_to_int(row.proceeds),
        row.adjustment_code, convert_to_int(row.adjustment),
        row.form_position, row.buy_lot, convert_to_bool(row.is_replacement))

\* Lots.create_from_csv_data: what it raises ("" if nothing), the lots of
\* the Lots object it returns, and the number of data rows it converted.
create_from_csv_data(data) ==
    LET rows == RowsRead(data)
        dicts == [i \in 1..(Len(rows) - 1) |-> DictOf(rows[i + 1])]
        bad == {i \in 1..Len(dicts) : RowError(dicts[i]) # ""}
        first == CHOOSE i \in bad : \A j \in bad : i <= j
        lots == [i \in 1..Len(dicts) |-> LotOfRow(dicts[i])]
    IN  IF rows = <<>>
        THEN [raises |-> "StopIteration", lots |-> <<>>, converted |-> 0]
        ELSE IF BadHeaders(DictOf(rows[1]))
        THEN [raises |-> "BadHeadersError", lots |-> <<>>, converted |-> 0]
        ELSE IF bad # {}
        THEN [raises |-> RowError(dicts[first]), lots |-> <<>>,
              converted |-> first - 1]
        ELSE [raises |-> "",
              lots |-> InitLoop(lots, [i \in 1..Len(lots) |-> i], 1, 1),
              converted |-> Len(lots)]

convert_from_int(value) == IF value # 0 THEN IntToStr(value) ELSE <<>>

convert_from_date(value) == IF value # None THEN Strftime(value) ELSE <<>>

convert_from_bool(value) ==
    IF value THEN <<"T", "r", "u", "e">> ELSE <<"F", "a", "l", "s", "e">>

\* csv.DictWriter.writerow: the cells of a dict in the order of the field
\* names, None written as the empty str.
RowOf(d) ==
    [i \in 1..Len(FIELD_NAMES) |->
        IF d[FIELD_NAMES[i]] = NoneStr THEN <<>> ELSE d[FIELD_NAMES[i]]]

\* Lots.write_csv_data: the rows written for the lots of a collection.
write_csv_data(lots) ==
    <<RowOf(HEADERS)>> \o
    [i \in 1..Len(lots) |->
        RowOf([ num_shares |-> convert_from_int(lots[i].num_shares),
                symbol |-> lots[i].symbol,
                description |-> lots[i].description,
                buy_date |-> convert_from_date(lots[i].buy_date),
                basis |-> convert_from_int(lots[i].basis),
                sell_date |-> convert_from_date(lots[i].sell_date),
                proceeds |-> convert_from_int(lots[i].proceeds),
                adjustment_code |-> lots[i].adjustment_code,
                adjustment |-> convert_from_int(lots[i].adjustment),
                form_position |-> lots[i].form_position,
                buy_lot |-> lots[i].buy_lot,
                is_replacement |-> convert_from_bool(lots[i].is_replacement) ])]

----------------------------------------------------------------------------
(* The operations. *)

\* c = Lots(lists[l])
Construct(c, l) ==
    /\ heap' = InitLoop(heap, lists[l], 1, 1)
    /\ colls' = [colls EXCEPT ![c] = l]
    /\ ret' = [op |-> "__init__", self |-> c, lots |-> l]
    /\ UNCHANGED <<lists, file>>

\* c.add(heap[x])
Add(c, x) ==
    /\ colls[c] # NoList
    /\ Len(lists[colls[c]]) < MaxLen
    /\ lists' = [lists EXCEPT ![colls[c]] = Append(@, x)]
    /\ ret' = [op |-> "add", self |-> c, lot |-> x]
    /\ UNCHANGED <<heap, colls, file>>

\* c.size()
Size(c) ==
    /\ colls[c] # NoList
    /\ ret' = [op |-> "size", self |-> c, value |-> Len(lists[colls[c]])]
    /\ UNCHANGED <<heap, lists, colls, file>>

\* c.sort(cmp=cmp, reverse=reverse)
Sort(c, cmp, reverse) ==
    /\ colls[c] # NoList
    /\ lists' = [lists EXCEPT ![colls[c]] =
                     SortList(heap, @, Len(@), cmp, reverse)]
    /\ ret' = [op |-> "sort", self |-> c, cmp |-> cmp, reverse |-> reverse]
    /\ UNCHANGED <<heap, colls, file>>

\* c == d
Eq(c, d) ==
    /\ colls[c] # NoList /\ colls[d] # NoList
    /\ ret' = [op |-> "__eq__", self |-> c, other |-> d,
               value |-> Lots__eq__(LotsOf(c), LotsOf(d))]
    /\ UNCHANGED <<heap, lists, colls, file>>

\* heap[x].is_loss()
IsLoss(x) ==
    /\ ret' = [op |-> "is_loss", self |-> x, value |-> is_loss(heap[x])]
    /\ UNCHANGED <<heap, lists, colls, file>>

\* Lot.cmp_by_buy_date(heap[x], heap[y])
CmpByBuyDate(x, y) ==
    /\ ret' = [op |-> "cmp_by_buy_date", a |-> x, b |-> y,
               value |-> cmp_by_buy_date(heap[x], heap[y])]
    /\ UNCHANGED <<heap, lists, colls, file>>

\* Lot.cmp_by_sell_date(heap[x], heap[y])
CmpBySellDate(x, y) ==
    /\ ret' = [op |-> "cmp_by_sell_date", a |-> x, b |-> y,
               value |-> cmp_by_sell_date(heap[x], heap[y])]
    /\ UNCHANGED <<heap, lists, colls, file>>

\* c.write_csv_data(file)
WriteCsvData(c) ==
    /\ colls[c] # NoList
    /\ file' = write_csv_data(LotsOf(c))
    /\ ret' = [op |-> "write_csv_data", self |-> c]
    /\ UNCHANGED <<heap, lists, colls>>

\* Lots.create_from_csv_data(file)
CreateFromCsvData ==
    /\ ret' = [op |-> "create_from_csv_data"] @@ create_from_csv_data(file)
    /\ UNCHANGED <<heap, lists, colls, file>>

\* Nothing called yet.
NoCall == [op |-> "none"]

----------------------------------------------------------------------------------------------------------------------------------------
(* Inputs. *)

\* The sequences over S of length at most n.
RECURSIVE SeqsUpTo(_, _)
SeqsUpTo(S, n) ==
    IF n = 0 THEN {<<>>}
    ELSE LET shorter == SeqsUpTo(S, n - 1)
         IN  shorter \cup
             {Append(s, x) : s \in {t \in shorter : Len(t) = n - 1}, x \in S}

\* Those of them that hold no element twice.
InjSeqsUpTo(S, n) ==
    {s \in SeqsUpTo(S, n) : \A i, j \in 1..Len(s) : s[i] = s[j] => i = j}

\* Lot object x as its caller built it: objects of odd and of even x differ
\* in their form position, the odd ones sorting last.
HeapLot(x, buy_lot) ==
    Lot(10, <<"A", "B", "C">>, <<"A">>, Date(2014, 9, 15), 200000,
        Date(2014, 10, 5), 180000, <<>>, 0, <<Chr(97 + (x % 2))>>, buy_lot,
        FALSE)

----------------------------------------------------------------------------
(* Collections: two list objects of lots whose buy_lot is set, and two Lots *)
(* objects built over them, grown, sorted and compared.  A list holds a    *)
(* lot object once.                                                         *)

Init ==
    /\ heap = [x \in 1..NumLots |-> HeapLot(x, <<"l", "o", "t">>)]
    /\ lists \in [ListIds -> InjSeqsUpTo(1..NumLots, MaxLen - 1)]
    /\ colls = [c \in CollIds |-> NoList]
    /\ file = <<>>
    /\ ret = NoCall

Next ==
    \/ \E c \in CollIds, l \in ListIds : Construct(c, l)
    \/ \E c \in CollIds, x \in 1..NumLots :
           /\ colls[c] # NoList
           /\ x \notin Range(lists[colls[c]])
           /\ Add(c, x)
    \/ \E c \in CollIds : Size(c)
    \/ \E c \in CollIds, cmp \in {"cmp_by_buy_date"}, reverse \in BOOLEAN :
           Sort(c, cmp, reverse)
    \/ \E c, d \in CollIds : c # d /\ Eq(c, d)

Spec == Init /\ [][Next]_vars

----------------------------------------------------------------------------
(* Buy-lot identifiers: one list object of lots with and without a buy_lot, *)
(* and the Lots objects built over it, before and after it grows.           *)

InitIds ==
    /\ heap \in [1..NumLots -> {HeapLot(1, b) : b \in {<<>>, <<"_", "1">>}}]
    /\ lists \in {[l \in ListIds |-> IF l = "l1" THEN s ELSE <<>>] :
                     s \in SeqsUpTo(1..NumLots, MaxLen)}
    /\ colls = [c \in CollIds |-> NoList]
    /\ file = <<>>
    /\ ret = NoCall

NextIds ==
    \/ \E c \in CollIds : Construct(c, "l1")
    \/ \E x \in 1..NumLots : Add("A", x)

SpecIds == InitIds /\ [][NextIds]_vars

----------------------------------------------------------------------------
(* Comparators: three lot objects a, b, c over all buy dates, sell dates    *)
(* and form positions of a small set, compared and sorted.                  *)

BuyDates == {Date(2014, 9, 15), Date(2014, 9, 20)}

SellDates == {None, Date(2014, 10, 1), Date(2014, 10, 5)}

FormPositions == {<<"a">>, <<"a", "b">>, <<"b">>}

CmpLots ==
    {Lot(10, <<"A", "B", "C">>, <<"A">>, bd, 200000, sd, 180000, <<>>, 0, fp,
         <<"l", "o", "t">>, FALSE) :
        bd \in BuyDates, sd \in SellDates, fp \in FormPositions}

InitCmp ==
    /\ heap \in [1..3 -> CmpLots]
    /\ lists = [l \in ListIds |-> IF l = "l1" THEN <<1, 2, 3>> ELSE <<>>]
    /\ colls = [c \in CollIds |-> IF c = "A" THEN "l1" ELSE NoList]
    /\ file = <<>>
    /\ ret = NoCall

NextCmp ==
    \/ CmpByBuyDate(1, 2)
    \/ CmpBySellDate(1, 2)
    \/ \E cmp \in {"cmp_by_buy_date", "cmp_by_sell_date"}, reverse \in BOOLEAN :
           Sort("A", cmp, reverse)

SpecCmp == InitCmp /\ [][NextCmp]_vars

----------------------------------------------------------------------------
(* CSV: a collection of lots over the values the conversions tell apart,    *)
(* written and read back; and input files over header rows and data rows    *)
(* of every kind, read.                                                     *)

\* The first lot of the collection ranges over every value the conversions
\* and is_loss tell apart; the lots after it are wash sales of no shares
\* bought on another day, with and without a sell date, a buy_lot and the
\* replacement mark.
CsvLots(first) ==
    {Lot(IF first THEN 10 ELSE 0, <<"A", "B", "C">>,
         IF first THEN <<"A">> ELSE <<>>,
         IF first THEN Date(2014, 9, 15) ELSE Date(2015, 12, 1), basis, sd,
         proceeds, IF first THEN <<>> ELSE <<"W">>,
         IF first THEN 0 ELSE 2000, <<"l", "o", "t", "1">>, buy_lot,
         is_replacement) :
        basis \in IF first THEN {0, 200000} ELSE {200000},
        sd \in {None, Date(2014, 10, 5)},
        proceeds \in IF first THEN {0 - 500, 0, 180000} ELSE {180000},
        buy_lot \in {<<>>, <<"x">>},
        is_replacement \in BOOLEAN}

\* A header row with the first label of the legacy set and the others of the
\* current one.
MixedHeaderRow == <<LEGACY_HEADERS.num_shares>> \o Tail(RowOf(HEADERS))

HeaderRows ==
    { RowOf(HEADERS), RowOf(LEGACY_HEADERS), MixedHeaderRow,
      SubSeq(RowOf(HEADERS), 1, 11), Append(RowOf(HEADERS), <<>>),
      Append(RowOf(LEGACY_HEADERS), <<"x">>) }

\* 10,ABC,A,9/15/2014,200000,10/05/2014,180000,,,lot1,,False
DataRow ==
    << <<"1", "0">>, <<"A", "B", "C">>, <<"A">>,
       <<"9", "/", "1", "5", "/", "2", "0", "1", "4">>,
       <<"2", "0", "0", "0", "0", "0">>,
       <<"1", "0", "/", "0", "5", "/", "2", "0", "1", "4">>,
       <<"1", "8", "0", "0", "0", "0">>, <<>>, <<>>,
       <<"l", "o", "t", "1">>, <<>>, <<"F", "a", "l", "s", "e">> >>

DataRows ==
    { DataRow,
      [DataRow EXCEPT ![11] = <<"l", "o", "t", "1">>, ![12] = <<"T", "R", "U", "E">>],
      SubSeq(DataRow, 1, 10),
      Append(DataRow, <<"x">>),
      [DataRow EXCEPT ![5] = <<"2", "k">>],
      [DataRow EXCEPT ![6] = <<"2", "/", "3", "0", "/", "2", "0", "1", "4">>],
      [i \in 1..12 |-> <<>>],
      <<>> }

InputFiles ==
    {blank \o header \o rows :
        blank \in {<<>>, << <<>> >>},
        header \in {<<>>} \cup {<<h>> : h \in HeaderRows},
        rows \in SeqsUpTo(DataRows, MaxRows)}

InitCsv ==
    \/ /\ \E n \in 0..MaxRows :
              /\ heap \in IF n = 0 THEN {<<>>}
                          ELSE {<<a>> \o t : a \in CsvLots(TRUE),
                                            t \in [1..(n - 1) -> CsvLots(FALSE)]}
              /\ lists = [l \in ListIds |->
                             IF l = "l1" THEN [i \in 1..n |-> i] ELSE <<>>]
       /\ colls = [c \in CollIds |-> IF c = "A" THEN "l1" ELSE NoList]
       /\ file = <<>>
       /\ ret = NoCall
    \/ /\ heap = <<>>
       /\ lists = [l \in ListIds |-> <<>>]
       /\ colls = [c \in CollIds |-> NoList]
       /\ file \in InputFiles
       /\ ret = NoCall

NextCsv ==
    \/ WriteCsvData("A")
    \/ CreateFromCsvData
    \/ Len(heap) >= 1 /\ IsLoss(1)

SpecCsv == InitCsv /\ [][NextCsv]_vars

----------------------------------------------------------------------------
(* The claims. *)

Sign(n) == IF n < 0 THEN -1 ELSE IF n > 0 THEN 1 ELSE 0

\* The order of two dates of the calendar: -1 if d is the earlier, 1 if the
\* later, 0 if they are the same day.
DateSign(d, e) ==
    IF d.year # e.year THEN (IF d.year < e.year THEN -1 ELSE 1)
    ELSE IF d.month # e.month THEN (IF d.month < e.month THEN -1 ELSE 1)
    ELSE IF d.day # e.day THEN (IF d.day < e.day THEN -1 ELSE 1)
    ELSE 0

\* The order of two sell dates, an absent one after any present one.
SellSign(d, e) ==
    IF d = None /\ e = None THEN 0
    ELSE IF d = None THEN 1
    ELSE IF e = None THEN -1
    ELSE DateSign(d, e)

\* Two lots agree on the twelve persisted fields.
SameFields(a, b) == \A f \in Range(FIELD_NAMES) : a[f] = b[f]

\* The lots of the written collection, when the file holds what
\* write_csv_data wrote for it and the last call read it back.
ReadBack ==
    /\ ret.op = "create_from_csv_data"
    /\ colls["A"] # NoList
    /\ file = write_csv_data(LotsOf("A"))

\* C1: reading back what write_csv_data wrote for a collection whose lots all
\* had a non-empty buy_lot returns a collection of the same length whose
\* lots equal the written ones, position by position, on all twelve fields.
C1_RoundTrip ==
    (ReadBack /\ \A i \in 1..Len(LotsOf("A")) : LotsOf("A")[i].buy_lot # <<>>)
        => /\ ret.raises = ""
           /\ Len(ret.lots) = Len(LotsOf("A"))
           /\ \A i \in 1..Len(ret.lots) :
                  SameFields(ret.lots[i], LotsOf("A")[i])

\* A collection with a zero basis, a negative proceeds, no sell date and the
\* replacement mark set, and a second lot, was written and read back.
C1_Witness ==
    /\ ReadBack
    /\ Len(LotsOf("A")) >= 2
    /\ \A i \in 1..Len(LotsOf("A")) : LotsOf("A")[i].buy_lot # <<>>
    /\ LotsOf("A")[1].basis = 0
    /\ LotsOf("A")[1].proceeds < 0
    /\ LotsOf("A")[1].sell_date = None
    /\ LotsOf("A")[1].is_replacement
    /\ LotsOf("A")[2].sell_date # None
    /\ ~LotsOf("A")[2].is_replacement
    /\ Len(ret.lots) = 2

\* A row is, column by column over the twelve columns, the current or the
\* legacy header labels.
IsHeaderRow(row) ==
    \/ /\ Len(row) = 12
       /\ \A i \in 1..12 : row[i] = HEADERS[FIELD_NAMES[i]]
    \/ /\ Len(row) = 12
       /\ \A i \in 1..12 : row[i] = LEGACY_HEADERS[FIELD_NAMES[i]]

NothingRead == ret.lots = <<>> /\ ret.converted = 0

\* C2 as stated: an input whose first row is not the current or the legacy
\* header labels ends in BadHeadersError, with no collection returned and no
\* data row converted.
C2_FirstRow ==
    (ret.op = "create_from_csv_data" /\ Len(file) >= 1 /\ ~IsHeaderRow(file[1]))
        => ret.raises = "BadHeadersError" /\ NothingRead

\* C2, amended: blank rows are passed over, so it is the first row that is
\* not blank that decides: if it is not the current or the legacy header
\* labels the outcome is BadHeadersError, and an input with no such row
\* ends in StopIteration; in both cases no collection is returned and no
\* data row is converted.
C2_FirstNonBlankRow ==
    ret.op = "create_from_csv_data" =>
        LET blanks == {i \in 1..Len(file) : \A j \in 1..i : file[j] = <<>>}
            k == Cardinality(blanks) + 1
        IN  /\ (k <= Len(file) /\ ~IsHeaderRow(file[k]))
                   => ret.raises = "BadHeadersError" /\ NothingRead
            /\ k > Len(file) => ret.raises = "StopIteration" /\ NothingRead

\* A file with a blank row, then a header row of mixed labels, then data
\* rows, was read and refused.
C2_Witness ==
    /\ ret.op = "create_from_csv_data"
    /\ Len(file) >= 3
    /\ file[1] = <<>>
    /\ file[2] = MixedHeaderRow
    /\ file[3] = DataRow
    /\ ret.raises = "BadHeadersError"

\* The lot objects without a buy_lot that list l holds up to the place where
\* it first holds l[p]: the number of them is the rank of l[p] among the
\* lots without a buy_lot, in the order of the list.
EmptyUpTo(h, l, p) ==
    LET first == CHOOSE q \in 1..p : l[q] = l[p] /\ \A r \in 1..p : l[r] = l[p] => q <= r
    IN  {l[q] : q \in {r \in 1..first : h[l[r]].buy_lot = <<>>}}

\* C3: the constructor gives the k-th lot of its list that had an empty
\* buy_lot the identifier "_k", counting from 1; a lot with a buy_lot keeps
\* it and takes no number; every lot of the list has a buy_lot afterwards.
C3_SyntheticIds ==
    [][ret'.op = "__init__" =>
          LET l == lists[ret'.lots]
          IN  \A p \in 1..Len(l) :
                  /\ heap[l[p]].buy_lot # <<>>
                         => heap'[l[p]].buy_lot = heap[l[p]].buy_lot
                  /\ heap[l[p]].buy_lot = <<>>
                         => heap'[l[p]].buy_lot =
                                <<"_">> \o
                                IntToStr(Cardinality(EmptyUpTo(heap, l, p)))
                  /\ heap'[l[p]].buy_lot # <<>>]_vars

\* A collection was built over a list of three lots, the second with the
\* buy_lot "_1" set before and the others with the numbers 1 and 2.
C3_Witness ==
    /\ ret.op = "__init__"
    /\ Len(lists[ret.lots]) = 3
    /\ Cardinality(Range(lists[ret.lots])) = 3
    /\ heap[lists[ret.lots][1]].buy_lot = <<"_", "1">>
    /\ heap[lists[ret.lots][2]].buy_lot = <<"_", "1">>
    /\ heap[lists[ret.lots][3]].buy_lot = <<"_", "2">>

\* C4: after the constructor, a lot that entered with an empty buy_lot holds
\* an identifier that no other lot of the collection holds.
C4_UniqueIds ==
    [][ret'.op = "__init__" =>
          LET l == lists[ret'.lots]
          IN  \A x, y \in Range(l) :
                  (heap[x].buy_lot = <<>> /\ x # y)
                      => heap'[x].buy_lot # heap'[y].buy_lot]_vars

\* C5: A == B is true exactly when the two collections have the same length
\* and their lots agree, position by position, on the twelve fields.
C5_Equality ==
    ret.op = "__eq__" =>
        (ret.value <=>
            /\ Len(LotsOf(ret.self)) = Len(LotsOf(ret.other))
            /\ \A i \in 1..Len(LotsOf(ret.self)) :
                   SameFields(LotsOf(ret.self)[i], LotsOf(ret.other)[i]))

\* C6: cmp_by_buy_date orders by buy date, then by sell date with an absent
\* one last, then by form position, and returns 0 when all three agree.
C6_CmpByBuyDate ==
    ret.op = "cmp_by_buy_date" =>
        LET a == heap[ret.a]
            b == heap[ret.b]
        IN  IF a.buy_date # b.buy_date
            THEN Sign(ret.value) = DateSign(a.buy_date, b.buy_date)
            ELSE IF a.sell_date # b.sell_date
            THEN Sign(ret.value) = SellSign(a.sell_date, b.sell_date)
            ELSE IF a.form_position # b.form_position
            THEN ret.value < 0 <=> StrLess(a.form_position, b.form_position)
            ELSE ret.value = 0

\* Two lots bought the same day were compared, the first sold and the second
\* not, and the first came first.
C6_Witness ==
    /\ ret.op = "cmp_by_buy_date"
    /\ heap[ret.a].buy_date = heap[ret.b].buy_date
    /\ heap[ret.a].sell_date # None
    /\ heap[ret.b].sell_date = None
    /\ heap[ret.a].form_position = <<"b">>
    /\ heap[ret.b].form_position = <<"a">>
    /\ ret.value < 0

\* C7: cmp_by_sell_date orders by sell date with an absent one last, then by
\* buy date, then by form position, and returns 0 when all three agree; two
\* unsold lots are ordered by buy date, then form position.
C7_CmpBySellDate ==
    ret.op = "cmp_by_sell_date" =>
        LET a == heap[ret.a]
            b == heap[ret.b]
        IN  IF a.sell_date # b.sell_date
            THEN Sign(ret.value) = SellSign(a.sell_date, b.sell_date)
            ELSE IF a.buy_date # b.buy_date
            THEN Sign(ret.value) = DateSign(a.buy_date, b.buy_date)
            ELSE IF a.form_position # b.form_position
            THEN ret.value < 0 <=> StrLess(a.form_position, b.form_position)
            ELSE ret.value = 0

\* Two unsold lots were compared, the first bought later and of the smaller
\* form position, and the first came last.
C7_Witness ==
    /\ ret.op = "cmp_by_sell_date"
    /\ heap[ret.a].sell_date = None
    /\ heap[ret.b].sell_date = None
    /\ DateSign(heap[ret.a].buy_date, heap[ret.b].buy_date) = 1
    /\ heap[ret.a].form_position = <<"a">>
    /\ heap[ret.b].form_position = <<"a", "b">>
    /\ ret.value > 0

\* C8: is_loss returns true exactly when the lot has a sell date and its
\* proceeds are below its basis; never for an unsold lot.
C8_IsLoss ==
    ret.op = "is_loss" =>
        LET lot == heap[ret.self]
        IN  /\ ret.value <=> (lot.sell_date # None /\ lot.proceeds < lot.basis)
            /\ lot.sell_date = None => ~ret.value
            /\ (lot.sell_date # None /\ lot.proceeds >= lot.basis) => ~ret.value

\* is_loss was asked of an unsold lot whose proceeds are below its basis.
C8_Witness ==
    /\ ret.op = "is_loss"
    /\ heap[ret.self].sell_date = None
    /\ heap[ret.self].proceeds < heap[ret.self].basis
    /\ ~ret.value

\* C9: an add or a sort on one collection leaves the size, the order and the
\* membership of the other collection as they were.
C9_NoSharedMutation ==
    [][ret'.op \in {"add", "sort"} =>
          \A d \in CollIds \ {ret'.self} :
              colls[d] # NoList => lists'[colls'[d]] = lists[colls[d]]]_vars

SameKeys(a, b) ==
    /\ a.buy_date = b.buy_date
    /\ a.sell_date = b.sell_date
    /\ a.form_position = b.form_position

\* C10: each of cmp_by_buy_date and cmp_by_sell_date is antisymmetric in
\* sign, transitive, and 0 exactly on lots of equal buy date, sell date and
\* form position; and a sort by either leaves every adjacent pair of the
\* collection in order.
C10_ConsistentOrder ==
    /\ \A cmp \in {"cmp_by_buy_date", "cmp_by_sell_date"} :
               LET a == heap[1]
                   b == heap[2]
                   c == heap[3]
               IN  /\ Sign(Compare(cmp, a, b)) = 0 - Sign(Compare(cmp, b, a))
                   /\ (Compare(cmp, a, b) <= 0 /\ Compare(cmp, b, c) <= 0)
                          => Compare(cmp, a, c) <= 0
                   /\ Compare(cmp, a, b) = 0 <=> SameKeys(a, b)
    /\ (/\ ret.op = "sort"
        /\ ret.cmp \in {"cmp_by_buy_date", "cmp_by_sell_date"}
        /\ ~ret.reverse)
           => LET lots == LotsOf(ret.self)
              IN  \A i \in 1..(Len(lots) - 1) :
                      Compare(ret.cmp, lots[i], lots[i + 1]) <= 0

\* Three lots that no two agree on when compared were sorted by sell date,
\* and the sort moved them.
C10_Witness ==
    /\ ret.op = "sort"
    /\ ret.cmp = "cmp_by_sell_date"
    /\ ~ret.reverse
    /\ lists[colls["A"]] = <<3, 1, 2>>
    /\ \A x, y \in DOMAIN heap : x # y => ~SameKeys(heap[x], heap[y])

====
